---- MODULE Spec2Model ----
(***************************************************************************)
(* FurHub marketplace (src/app.py, src/config.py): the Users, Items and    *)
(* Orders tables, the upload directory, one browser session and the        *)
(* request handlers, as a state machine.                                   *)
(*                                                                         *)
(* Text (a form field, a file name) is a sequence of chunks: " " is a run  *)
(* of whitespace, "." the dot and "/" the path separator of a file name,   *)
(* and any other chunk is a run of characters that holds none of these.    *)
(* The empty string is <<>>.  Passwords are never stripped or split, so    *)
(* they stay plain strings.                                                *)
(***************************************************************************)
EXTENDS Integers, Sequences, FiniteSets, TLC

VARIABLES
    Users,      \* User table: set of rows
    Items,      \* Item table: set of rows
    Orders,     \* Order table: set of rows
    files,      \* names of the files in UPLOAD_FOLDER
    session,    \* the browser's session: a function from its keys to values
    resp,       \* the response to the last request
    reqs,       \* /register requests in flight (concurrent specification)
    gone_add,   \* history: item ids deleted with no successful add-item since
    gone_seed   \* history: item ids deleted with no add-item and no seeding since

vars == <<Users, Items, Orders, files, session, resp, reqs, gone_add, gone_seed>>
db == <<Users, Items, Orders, files>>
hist == <<gone_add, gone_seed>>

----------------------------------------------------------------------------
(* Bounds of the model *)

\* how many entries of the demo catalog are kept
DemoCount == 1
\* largest id the Item table hands out
MaxItemId == 2
\* largest id the Order table hands out
MaxOrderId == 1
\* largest id the User table hands out
MaxUserId == 2
\* pending flash messages of the session
MaxFlashes == 1
\* distinct values secrets.token_hex(8) may return
NumTokens == 2
\* distinct salts generate_password_hash may draw
NumSalts == 1

----------------------------------------------------------------------------
(* Text *)

Max(S) == CHOOSE m \in S : \A x \in S : x <= m

IsSpace(c) == c = " "

RECURSIVE lstrip(_)
lstrip(t) == IF t # <<>> /\ IsSpace(Head(t)) THEN lstrip(Tail(t)) ELSE t

RECURSIVE rstrip(_)
rstrip(t) ==
    IF t # <<>> /\ IsSpace(t[Len(t)]) THEN rstrip(SubSeq(t, 1, Len(t) - 1)) ELSE t

\* str.strip()
strip(t) == rstrip(lstrip(t))

\* str.lower() on a chunk
lower(c) ==
    CASE c = "PNG" -> "png"
      [] c = "EXE" -> "exe"
      [] OTHER -> c

ALLOWED_EXTENSIONS == {"png", "jpg", "jpeg", "gif", "webp"}

\* filename.rsplit('.', 1)[1]: the chunks after the last dot
rsplit_ext(filename) ==
    LET dots == {i \in 1..Len(filename) : filename[i] = "."}
    IN  SubSeq(filename, Max(dots) + 1, Len(filename))

allowed_file(filename) ==
    /\ \E i \in 1..Len(filename) : filename[i] = "."
    /\ LET ext == rsplit_ext(filename)
       IN  /\ Len(ext) = 1
           /\ lower(ext[1]) \in ALLOWED_EXTENSIONS

\* werkzeug secure_filename: whitespace and path separators become "_", then
\* the dots and underscores at both ends are stripped
RECURSIVE lstrip_unsafe(_)
lstrip_unsafe(t) ==
    IF t # <<>> /\ Head(t) \in {".", "_"} THEN lstrip_unsafe(Tail(t)) ELSE t

RECURSIVE rstrip_unsafe(_)
rstrip_unsafe(t) ==
    IF t # <<>> /\ t[Len(t)] \in {".", "_"}
    THEN rstrip_unsafe(SubSeq(t, 1, Len(t) - 1))
    ELSE t

secure_filename(filename) ==
    LET joined == [i \in 1..Len(filename) |->
                      IF filename[i] \in {" ", "/"} THEN "_" ELSE filename[i]]
    IN  rstrip_unsafe(lstrip_unsafe(joined))

\* values of secrets.token_hex(8)
TokenHex == <<"3f9a1c07d2e4b685", "a07c55e1990b2d4f", "5be2d0c8417f36a9", "c4d81e6f02a7b935">>
Tokens == {TokenHex[i] : i \in 1..NumTokens}
Salts == 1..NumSalts

\* f"{secrets.token_hex(8)}_{filename}"
unique_name(token, filename) == <<token, "_">> \o filename

----------------------------------------------------------------------------
(* Passwords *)

\* the one-way digest of a salted password
digest(salt, password) == <<salt, password>>

generate_password_hash(password, salt) ==
    [salt |-> salt, digest |-> digest(salt, password)]

check_password_hash(pwhash, password) ==
    pwhash.digest = digest(pwhash.salt, password)

\* check_password with the comparison of the hash left out
check_password_nocompare(user, password) == TRUE

\* User.check_password
check_password(user, password) == check_password_hash(user.password_hash, password)

----------------------------------------------------------------------------
(* Tables *)

\* SQLite INTEGER PRIMARY KEY without AUTOINCREMENT: one more than the largest
\* id in the table, so the id of a deleted last row is handed out again
next_id(table) == IF table = {} THEN 1 ELSE Max({r.id : r \in table}) + 1

\* Model.query.get(id): the set holding the row, or the empty set
query_get(table, id) == {r \in table : r.id = id}

by_username(us, username) == {u \in us : u.username = username}
by_email(us, email) == {u \in us : u.email = email}

\* the User table with unique=True on the username column alone
user_unique_username_only(us, u) == by_username(us, u.username) = {}

\* the unique=True columns of User
user_unique_ok(us, u) ==
    /\ by_username(us, u.username) = {}
    /\ by_email(us, u.email) = {}

\* db.session.add(user); db.session.commit(): the row is inserted unless a
\* UNIQUE constraint rejects it (IntegrityError)
commit_user(us, u) ==
    IF user_unique_ok(us, u)
    THEN [ok |-> TRUE, users |-> us \cup {u}]
    ELSE [ok |-> FALSE, users |-> us]

new_user(us, username, email, password, salt, is_admin) ==
    [id |-> next_id(us), username |-> username, email |-> email,
     password_hash |-> generate_password_hash(password, salt),
     is_admin |-> is_admin]

DEFAULT_CATEGORY == <<"pet-supplies">>

new_item(its, content, store, price, image, user_id) ==
    [id |-> next_id(its), content |-> content, store |-> store, price |-> price,
     category |-> DEFAULT_CATEGORY, image |-> image, user_id |-> user_id]

new_order(os, item_id, location, phone, email) ==
    [id |-> next_id(os), item_id |-> item_id, buyer_location |-> location,
     buyer_phone |-> phone, buyer_email |-> email]

----------------------------------------------------------------------------
(* Session and flash messages *)

EmptySession == [k \in {} |-> 0]

session_get(s, k, default) == IF k \in DOMAIN s THEN s[k] ELSE default

flashes(s) == session_get(s, "_flashes", <<>>)

\* flask.flash: appends to the list kept under the session key _flashes
flash(s, message, category) ==
    ("_flashes" :> Append(flashes(s), <<category, message>>)) @@ s

\* the page templates show the pending flash messages, which pops _flashes
render_template(s) == [k \in DOMAIN s \ {"_flashes"} |-> s[k]]

\* a logout that pops user_id and keeps the other keys
session_pop_user_id(s) == [k \in DOMAIN s \ {"user_id"} |-> s[k]]

\* session.clear()
session_clear(s) == EmptySession

\* room for one more pending flash message
CanFlash(s) == Len(flashes(s)) < MaxFlashes

\* login_required / admin_required: where the decorator sends the request
login_required(s) == IF "user_id" \notin DOMAIN s THEN "login" ELSE "run"

\* admin_required with the is_admin test left out
admin_required_login_only(s) == IF "user_id" \notin DOMAIN s THEN "login" ELSE "run"

admin_required(s) ==
    IF "user_id" \notin DOMAIN s THEN "login"
    ELSE IF ~ session_get(s, "is_admin", FALSE) THEN "index"
    ELSE "run"

Response(handler, result, message) ==
    [handler |-> handler, result |-> result, message |-> message, data |-> {}]

\* the redirect of a decorator that turned the request away
denied(handler, guard) ==
    LET message == IF guard = "login" THEN "please-log-in" ELSE "no-permission"
    IN  /\ CanFlash(session)
        /\ session' = flash(session, message, "error")
        /\ resp' = Response(handler, "redirect:" \o guard, message)
        /\ UNCHANGED <<db, reqs, hist>>

\* a handler that shows a page and changes nothing else
page(handler, result, message) ==
    /\ session' = render_template(IF message = "" THEN session
                                  ELSE flash(session, message, "error"))
    /\ resp' = Response(handler, result, message)

----------------------------------------------------------------------------
(* Bootstrap *)

ADMIN_USERNAME == <<"admin">>
ADMIN_EMAIL == <<"admin@curated.com">>
ADMIN_PASSWORD == "admin123"

create_default_admin(us, salt) ==
    IF by_username(us, ADMIN_USERNAME) = {}
    THEN commit_user(us, new_user(us, ADMIN_USERNAME, ADMIN_EMAIL,
                                  ADMIN_PASSWORD, salt, TRUE)).users
    ELSE us

OFFICIAL_STORE == <<"FurHub", " ", "official-store">>

\* the fifteen entries of the demo catalog: content (abridged), price, image
products == <<
    [content |-> <<"retractable-leash">>, price |-> <<"399">>,  image |-> <<"d11cc63cf52e0c9e", ".", "png">>],
    [content |-> <<"ball-launcher">>,     price |-> <<"1280">>, image |-> <<"ec5834f792e018b8", ".", "png">>],
    [content |-> <<"greenies">>,          price |-> <<"450">>,  image |-> <<"efaceca171ec65f4", ".", "png">>],
    [content |-> <<"milk-bone">>,         price |-> <<"320">>,  image |-> <<"b52be015fa732b09", ".", "png">>],
    [content |-> <<"pet-brush">>,         price |-> <<"289">>,  image |-> <<"pet_brush_01", ".", "jpg">>],
    [content |-> <<"pet-sweater">>,       price |-> <<"459">>,  image |-> <<"pet_sweater_01", ".", "jpg">>],
    [content |-> <<"bowl-stand">>,        price |-> <<"680">>,  image |-> <<"pet_bowl_stand_01", ".", "jpg">>],
    [content |-> <<"litter-box">>,        price |-> <<"890">>,  image |-> <<"cat_litter_box_01", ".", "jpg">>],
    [content |-> <<"pet-stroller">>,      price |-> <<"2480">>, image |-> <<"pet_stroller_01", ".", "jpg">>],
    [content |-> <<"pet-bed">>,           price |-> <<"750">>,  image |-> <<"pet_bed_01", ".", "jpg">>],
    [content |-> <<"pet-diaper">>,        price |-> <<"320">>,  image |-> <<"pet_diaper_01", ".", "jpg">>],
    [content |-> <<"dog-treats-combo">>,  price |-> <<"580">>,  image |-> <<"dog_treats_combo_01", ".", "jpg">>],
    [content |-> <<"cesar-dog-food">>,    price |-> <<"45">>,   image |-> <<"cesar_dog_food_01", ".", "jpg">>],
    [content |-> <<"nail-clipper">>,      price |-> <<"199">>,  image |-> <<"pet_nail_clipper_01", ".", "jpg">>],
    [content |-> <<"rawhide-sticks">>,    price |-> <<"420">>,  image |-> <<"rawhide_sticks_01", ".", "jpg">> ] >>

\* the part of the catalog the model keeps
catalog == SubSeq(products, 1, DemoCount)

DemoImages == {catalog[i].image : i \in 1..Len(catalog)}

\* seed_demo_products with the test for existing items left out
seed_demo_products_unchecked(its, us) ==
    LET admin == by_username(us, ADMIN_USERNAME)
        admin_id == IF admin # {} THEN (CHOOSE u \in admin : TRUE).id ELSE 0
        base == next_id(its) - 1
    IN  its \cup {[id |-> base + i, content |-> catalog[i].content,
                   store |-> OFFICIAL_STORE, price |-> catalog[i].price,
                   category |-> DEFAULT_CATEGORY, image |-> catalog[i].image,
                   user_id |-> admin_id] : i \in 1..Len(catalog)}

\* the rows are flushed in list order, so they take consecutive ids
seed_demo_products(its, us) ==
    IF Cardinality(its) > 0 THEN its
    ELSE LET admin == by_username(us, ADMIN_USERNAME)
             admin_id == IF admin # {} THEN (CHOOSE u \in admin : TRUE).id
                         ELSE 0  \* None
             base == next_id(its) - 1
         IN  its \cup {[id |-> base + i, content |-> catalog[i].content,
                        store |-> OFFICIAL_STORE, price |-> catalog[i].price,
                        category |-> DEFAULT_CATEGORY, image |-> catalog[i].image,
                        user_id |-> admin_id] : i \in 1..Len(catalog)}

\* init_db: the upload directory is made when missing (its files are not), the
\* tables are kept, then the admin account and the demo catalog are ensured
init_db(salt) ==
    /\ Users' = create_default_admin(Users, salt)
    /\ Items' = seed_demo_products(Items, Users')
    /\ UNCHANGED <<Orders, files, session, reqs, gone_add>>
    /\ gone_seed' = IF Items' = Items THEN gone_seed ELSE {}
    /\ resp' = Response("init_db", "ok", "")

Idle == [pc |-> "idle"]
Workers == {1, 2}

\* the state once the module is imported on a fresh deployment: init_db has run
\* on empty tables, and the upload directory holds the demo images
Init ==
    /\ \E salt \in Salts :
          /\ Users = create_default_admin({}, salt)
          /\ Items = seed_demo_products({}, Users)
    /\ Orders = {}
    /\ files = DemoImages
    /\ session = EmptySession
    /\ resp = Response("init_db", "ok", "")
    /\ reqs = [w \in Workers |-> Idle]
    /\ gone_add = {}
    /\ gone_seed = {}

----------------------------------------------------------------------------
(* Request inputs *)

UsernameInputs == {<<>>, <<"admin">>, <<" ", "admin", " ">>, <<"bob">>}
RegisterUsernameInputs == {<<>>, <<" ", "admin", " ">>, <<"bob">>}
EmailInputs == {<<"admin@curated.com">>, <<"bob@example.com", " ">>}
\* password and confirm_password
PasswordPairs == {<<"", "">>, <<"short", "short">>, <<"secret", "admin123">>,
                  <<"secret", "secret">>}
PasswordInputs == {"", "secret", "admin123"}
ContentInputs == {<<>>, <<" ", "leash">>}
StoreInputs == {<<"FurHub">>}
PriceInputs == {<<"399">>}
\* request.files: no image field, or the file name of the field
ImageInputs == {[present |-> FALSE, filename |-> <<>>]} \cup
    {[present |-> TRUE, filename |-> f] : f \in
        {<<>>, <<"x">>, <<"x", ".", "exe">>, <<"x", ".", "PNG">>,
         <<".", ".", "/", "x", ".", "PNG">>}}
ItemIdInputs == 1..(MaxItemId + 1)
OrderItemIdInputs == {1, MaxItemId + 1}
LocationInputs == {<<>>, <<" ">>, <<"Taipei">>}
PhoneInputs == {<<"0912345678">>}
BuyerEmailInputs == {<<>>, <<"buyer@example.com">>}
QueryInputs == {<<>>, <<"leash">>}

----------------------------------------------------------------------------
(* Handlers *)

\* GET /: the listing (filtered by q, newest first) changes no state
index(q) ==
    /\ page("index", "page", "")
    /\ UNCHANGED <<db, reqs, hist>>

\* the validation of register with the lookup by email left out
register_error_no_email(us, username, email, password, confirm_password) ==
    IF username = <<>> \/ email = <<>> \/ password = "" THEN "fill-all-fields"
    ELSE IF password # confirm_password THEN "password-mismatch"
    ELSE IF Len(password) < 6 THEN "password-too-short"
    ELSE IF by_username(us, username) # {} THEN "username-exists"
    ELSE "none"

\* the validation of register, in the order of the code: the first error, or "none"
register_error(us, username, email, password, confirm_password) ==
    IF username = <<>> \/ email = <<>> \/ password = "" THEN "fill-all-fields"
    ELSE IF password # confirm_password THEN "password-mismatch"
    ELSE IF Len(password) < 6 THEN "password-too-short"
    ELSE IF by_username(us, username) # {} THEN "username-exists"
    ELSE IF by_email(us, email) # {} THEN "email-registered"
    ELSE "none"

\* GET/POST /register
register(method, f_username, f_email, password, confirm_password, salt) ==
    LET username == strip(f_username)
        email == strip(f_email)
        error == register_error(Users, username, email, password, confirm_password)
        done == commit_user(Users, new_user(Users, username, email, password,
                                            salt, FALSE))
    IN  /\ UNCHANGED <<Items, Orders, files, reqs, hist>>
        /\ IF method = "GET"
           THEN page("register", "form", "") /\ UNCHANGED Users
           ELSE IF error # "none"
           THEN page("register", "form", error) /\ UNCHANGED Users
           ELSE IF ~ done.ok
           THEN page("register", "500", "") /\ UNCHANGED Users
           ELSE /\ next_id(Users) <= MaxUserId
                /\ CanFlash(session)
                /\ Users' = done.users
                /\ session' = flash(session, "registered", "success")
                /\ resp' = Response("register", "redirect:login", "registered")

\* GET/POST /login
login(method, f_username, password) ==
    LET username == strip(f_username)
        found == by_username(Users, username)
        user == CHOOSE u \in found : TRUE
    IN  /\ UNCHANGED <<db, reqs, hist>>
        /\ IF method = "GET"
           THEN page("login", "form", "")
           ELSE IF found # {} /\ check_password(user, password)
           THEN /\ CanFlash(session)
                /\ session' = flash(("user_id" :> user.id)
                                    @@ ("username" :> user.username)
                                    @@ ("is_admin" :> user.is_admin)
                                    @@ session,
                                    IF user.is_admin THEN "welcome-admin" ELSE "welcome",
                                    "success")
                /\ resp' = Response("login", "redirect:index",
                                    IF user.is_admin THEN "welcome-admin" ELSE "welcome")
           ELSE page("login", "form", "bad-credentials")

\* GET /logout
logout ==
    /\ session' = flash(session_clear(session), "logged-out", "success")
    /\ resp' = Response("logout", "redirect:index", "logged-out")
    /\ UNCHANGED <<db, reqs, hist>>

\* the validation of add_item, in the order of the code
add_item_error(content, store, price, has_image, filename) ==
    IF content = <<>> \/ store = <<>> \/ price = <<>> THEN "fill-required-fields"
    ELSE IF ~ has_image THEN "upload-an-image"
    ELSE IF filename = <<>> THEN "choose-an-image"
    ELSE IF ~ allowed_file(filename) THEN "unsupported-format"
    ELSE "none"

\* GET/POST /add
add_item(method, f_content, f_store, f_price, has_image, filename, token) ==
    LET guard == admin_required(session)
        content == strip(f_content)
        store == strip(f_store)
        price == strip(f_price)
        error == add_item_error(content, store, price, has_image, filename)
        unique_filename == unique_name(token, secure_filename(filename))
    IN  IF guard # "run" THEN denied("add_item", guard)
        ELSE IF method = "GET"
        THEN page("add_item", "form", "") /\ UNCHANGED <<db, reqs, hist>>
        ELSE IF error # "none"
        THEN page("add_item", "form", error) /\ UNCHANGED <<db, reqs, hist>>
        ELSE /\ next_id(Items) <= MaxItemId
             /\ CanFlash(session)
             /\ files' = files \cup {unique_filename}
             /\ Items' = Items \cup {new_item(Items, content, store, price,
                                              unique_filename,
                                              session_get(session, "user_id", 0))}
             /\ session' = flash(session, "item-added", "success")
             /\ resp' = Response("add_item", "redirect:/", "item-added")
             /\ gone_add' = {}
             /\ gone_seed' = {}
             /\ UNCHANGED <<Users, Orders, reqs>>

\* Item.query.get_or_404(item_id)
get_or_404(its, item_id) ==
    IF query_get(its, item_id) = {} THEN "404" ELSE "found"

\* GET /item/<id>
item_detail(item_id) ==
    /\ page("item_detail", IF get_or_404(Items, item_id) = "404" THEN "404" ELSE "page", "")
    /\ UNCHANGED <<db, reqs, hist>>

\* POST /buy/<id>
buy_item(item_id, f_location, f_phone, f_email) ==
    LET location == strip(f_location)
        phone == strip(f_phone)
        email == strip(f_email)
    IN  /\ UNCHANGED <<Users, Items, files, reqs, hist>>
        /\ IF location = <<>> \/ phone = <<>> \/ email = <<>>
           THEN /\ CanFlash(session)
                /\ session' = flash(session, "fill-required-fields", "error")
                /\ resp' = Response("buy_item", "redirect:item_detail",
                                    "fill-required-fields")
                /\ UNCHANGED Orders
           ELSE /\ next_id(Orders) <= MaxOrderId
                /\ Orders' = Orders \cup {new_order(Orders, item_id, location,
                                                    phone, email)}
                /\ page("buy_item", "order_success", "")

\* a delete that leaves the image file in place
remove_image_skipped(fs, item) == fs

\* os.remove of the item's image, when it has one and the file exists
remove_image(fs, item) == IF item.image # <<>> THEN fs \ {item.image} ELSE fs

\* GET/POST /delete/<id>
delete_item(item_id) ==
    LET guard == admin_required(session)
        found == query_get(Items, item_id)
        item == CHOOSE it \in found : TRUE
    IN  IF guard # "run" THEN denied("delete_item", guard)
        ELSE IF get_or_404(Items, item_id) = "404"
        THEN page("delete_item", "404", "") /\ UNCHANGED <<db, reqs, hist>>
        ELSE /\ CanFlash(session)
             /\ files' = remove_image(files, item)
             /\ Items' = Items \ {item}
             /\ session' = flash(session, "item-deleted", "success")
             /\ resp' = Response("delete_item", "redirect:/", "item-deleted")
             /\ gone_add' = gone_add \cup {item_id}
             /\ gone_seed' = gone_seed \cup {item_id}
             /\ UNCHANGED <<Users, Orders, reqs>>

\* GET /my-items
my_items ==
    LET guard == admin_required(session)
    IN  IF guard # "run" THEN denied("my_items", guard)
        ELSE page("my_items", "page", "") /\ UNCHANGED <<db, reqs, hist>>

\* the orders page with the item looked up by the id of the order
orders_data_by_order_id(os, its) ==
    {[order |-> o, item |-> it] : <<o, it>> \in
        {p \in os \X its : p[2] \in query_get(its, p[1].id)}}

\* the order/item pairs the orders page is rendered with
orders_data(os, its) ==
    {[order |-> o, item |-> it] : <<o, it>> \in
        {p \in os \X its : p[2] \in query_get(its, p[1].item_id)}}

\* GET /orders
orders ==
    LET guard == admin_required(session)
    IN  IF guard # "run" THEN denied("orders", guard)
        ELSE /\ session' = render_template(session)
             /\ resp' = [Response("orders", "page", "")
                           EXCEPT !.data = orders_data(Orders, Items)]
             /\ UNCHANGED <<db, reqs, hist>>

\* GET /uploads/<filename>
uploaded_file(filename) ==
    /\ IF filename \in files
       THEN /\ resp' = Response("uploaded_file", "file", "")
            /\ UNCHANGED session
       ELSE page("uploaded_file", "404", "")
    /\ UNCHANGED <<db, reqs, hist>>

\* the file names a client asks /uploads for
UploadNames ==
    DemoImages \cup {unique_name(t, <<"x", ".", "PNG">>) : t \in Tokens}

Next ==
    \/ \E q \in QueryInputs : index(q)
    \/ register("GET", <<>>, <<>>, "", "", 1)
    \/ \E u \in RegisterUsernameInputs, e \in EmailInputs, p \in PasswordPairs,
          salt \in Salts :
          register("POST", u, e, p[1], p[2], salt)
    \/ login("GET", <<>>, "")
    \/ \E u \in UsernameInputs, p \in PasswordInputs : login("POST", u, p)
    \/ logout
    \/ add_item("GET", <<>>, <<>>, <<>>, FALSE, <<>>, "")
    \/ \E c \in ContentInputs, s \in StoreInputs, p \in PriceInputs,
          image \in ImageInputs, t \in Tokens :
          add_item("POST", c, s, p, image.present, image.filename, t)
    \/ \E id \in ItemIdInputs : item_detail(id)
    \/ \E id \in OrderItemIdInputs, l \in LocationInputs, p \in PhoneInputs,
          e \in BuyerEmailInputs : buy_item(id, l, p, e)
    \/ \E id \in ItemIdInputs : delete_item(id)
    \/ my_items
    \/ orders
    \/ \E f \in UploadNames : uploaded_file(f)
    \/ \E salt \in Salts : init_db(salt)

Spec == Init /\ [][Next]_vars

----------------------------------------------------------------------------
(* Concurrent /register requests: each worker runs the checks of register    *)
(* at one moment and the commit at a later one, as two server threads do.    *)
(* A request works on the session its cookie carried when it arrived.        *)

ConcUsernameInputs == {<<"admin">>, <<"bob">>, <<"carol">>}
ConcEmailInputs == {<<"admin@curated.com">>, <<"bob@example.com">>, <<"carol@example.com">>}

\* lines 119-144 of register: the form is read and checked
register_begin(w, f_username, f_email, password, confirm_password, salt) ==
    LET username == strip(f_username)
        email == strip(f_email)
        error == register_error(Users, username, email, password, confirm_password)
    IN  /\ reqs[w].pc = "idle"
        /\ UNCHANGED <<db, hist>>
        /\ IF error # "none"
           THEN page("register", "form", error) /\ UNCHANGED reqs
           ELSE /\ next_id(Users) <= MaxUserId
                /\ CanFlash(session)
                /\ reqs' = [reqs EXCEPT ![w] =
                              [pc |-> "commit", username |-> username, email |-> email,
                               password |-> password, salt |-> salt,
                               session |-> session]]
                /\ UNCHANGED <<session, resp>>

\* lines 147-153 of register, and internal_error when the commit raises
register_commit(w) ==
    LET r == reqs[w]
        done == commit_user(Users, new_user(Users, r.username, r.email, r.password,
                                            r.salt, FALSE))
    IN  /\ r.pc = "commit"
        /\ reqs' = [reqs EXCEPT ![w] = Idle]
        /\ Users' = done.users
        /\ UNCHANGED <<Items, Orders, files, hist>>
        /\ IF done.ok
           THEN /\ session' = flash(r.session, "registered", "success")
                /\ resp' = Response("register", "redirect:login", "registered")
           ELSE /\ session' = render_template(r.session)
                /\ resp' = Response("register", "500", "")

NextConc ==
    \/ \E w \in Workers, u \in ConcUsernameInputs, e \in ConcEmailInputs,
          p \in PasswordPairs, salt \in Salts :
          register_begin(w, u, e, p[1], p[2], salt)
    \/ \E w \in Workers : register_commit(w)
    \/ \E q \in QueryInputs : index(q)
    \/ \E salt \in Salts : init_db(salt)

SpecConc == Init /\ [][NextConc]_vars

----------------------------------------------------------------------------
(* Properties *)

GuardedHandlers == {"add_item", "delete_item", "my_items", "orders"}
HasUser(s) == "user_id" \in DOMAIN s
IsAdminSession(s) == HasUser(s) /\ "is_admin" \in DOMAIN s /\ s["is_admin"] = TRUE

\* C1: a request to /add, /delete/<id>, /my-items or /orders runs the handler
\* body only when the session holds user_id and a true is_admin flag; with no
\* user_id it is redirected to login, with user_id and no true flag to home,
\* and then the three tables and the upload directory are left unchanged.
C1_AdminGuard ==
    [][resp'.handler \in GuardedHandlers =>
          /\ ~ HasUser(session) =>
                resp'.result = "redirect:login" /\ UNCHANGED db
          /\ HasUser(session) /\ ~ IsAdminSession(session) =>
                resp'.result = "redirect:index" /\ UNCHANGED db
          /\ resp'.result \notin {"redirect:login", "redirect:index"} =>
                IsAdminSession(session)]_vars

\* a non-admin account is logged in and was turned away from a guarded route
C1_Witness ==
    /\ resp.handler = "delete_item"
    /\ resp.result = "redirect:index"
    /\ HasUser(session) /\ ~ IsAdminSession(session)

\* the session's flag is the stored flag of the user the session names
SessionMatchesUser ==
    HasUser(session) =>
        /\ {"username", "is_admin"} \subseteq DOMAIN session
        /\ \E u \in Users : /\ u.id = session["user_id"]
                            /\ u.username = session["username"]
                            /\ u.is_admin = session["is_admin"]

\* the effect of POST /login, given the username the stored rows are matched with
LoginEffect(name, password) ==
    LET verified == {u \in Users : u.username = name
                                   /\ check_password_hash(u.password_hash, password)}
    IN  IF verified # {}
        THEN /\ resp'.result = "redirect:index"
             /\ {"user_id", "username", "is_admin"} \subseteq DOMAIN session'
             /\ \E u \in verified : /\ session'["user_id"] = u.id
                                    /\ session'["username"] = u.username
                                    /\ session'["is_admin"] = u.is_admin
        ELSE /\ resp'.result = "form"
             /\ \A k \in {"user_id", "username", "is_admin"} :
                    /\ (k \in DOMAIN session') = (k \in DOMAIN session)
                    /\ k \in DOMAIN session => session'[k] = session[k]

\* C2 as stated: POST /login establishes a session iff a User with the
\* submitted username exists and its hash verifies against the submitted
\* password; and whenever the session holds a user_id its is_admin flag is the
\* stored flag of that User.
C2_Original ==
    /\ [][resp'.handler = "login" =>
             \A u \in UsernameInputs, p \in PasswordInputs :
                login("POST", u, p) => LoginEffect(u, p)]_vars
    /\ []SessionMatchesUser

\* C2 amended: as above, with the submitted username stripped of surrounding
\* whitespace before it is matched against the stored usernames.
C2_LoginIff ==
    /\ [][resp'.handler = "login" =>
             \A u \in UsernameInputs, p \in PasswordInputs :
                login("POST", u, p) => LoginEffect(strip(u), p)]_vars
    /\ []SessionMatchesUser

\* the admin has logged in
C2_Witness ==
    /\ resp.handler = "login"
    /\ resp.result = "redirect:index"
    /\ IsAdminSession(session)
    /\ \E u \in Users : u.id = session["user_id"] /\ u.is_admin

\* C3: a POST /register that passes the non-empty, match and length checks and
\* whose stripped username or stripped email is the one of an existing User
\* leaves the number of User rows unchanged and answers with the error of the
\* duplicated field: username-exists when the username is taken,
\* email-registered when only the email is.
C3_DuplicateRegister ==
    [][resp'.handler = "register" =>
       \A u \in RegisterUsernameInputs, e \in EmailInputs, p \in PasswordPairs,
          salt \in Salts :
          LET name_taken == \E x \in Users : x.username = strip(u)
              email_taken == \E x \in Users : x.email = strip(e)
          IN  (/\ strip(u) # <<>> /\ strip(e) # <<>> /\ p[1] # ""
               /\ p[1] = p[2] /\ Len(p[1]) >= 6
               /\ name_taken \/ email_taken
               /\ register("POST", u, e, p[1], p[2], salt))
              => /\ Cardinality(Users') = Cardinality(Users)
                 /\ resp'.result = "form"
                 /\ resp'.message = IF name_taken THEN "username-exists"
                                                  ELSE "email-registered"]_vars

\* a registration was refused because only its email was taken
C3_Witness ==
    /\ resp.handler = "register"
    /\ resp.message = "email-registered"
    /\ Cardinality(Users) >= 1

\* C4 as stated: after /logout the session holds no keys at all.
C4_Original == resp.handler = "logout" => DOMAIN session = {}

\* C4 amended: after /logout the session holds no user_id, username or is_admin
\* and nothing of what it held before; its only key is the flash list, which
\* holds exactly the logout notice that the handler flashes after clearing.
C4_LogoutClears ==
    resp.handler = "logout" =>
        /\ DOMAIN session = {"_flashes"}
        /\ session["_flashes"] = << <<"success", "logged-out">> >>

\* a logout has been answered
C4_Witness == resp.handler = "logout" /\ ~ HasUser(session)

\* a successful /delete/<id> removes the row of that id and the file its image names
DeleteEffect ==
    (resp'.handler = "delete_item" /\ resp'.result = "redirect:/") =>
        \E it \in Items :
            /\ Items' = Items \ {it}
            /\ query_get(Items', it.id) = {}
            /\ it.image \notin files'

\* C5 as stated: an admin's /delete/<id> of an existing Item removes the row
\* and the image file, and any later GET /item/<id> with no add-item in
\* between is answered 404.
C5_Original ==
    /\ [][DeleteEffect]_vars
    /\ [](\A id \in gone_add : get_or_404(Items, id) = "404")

\* C5 amended: ... and any later GET /item/<id> with no add-item and no
\* bootstrap seeding of the emptied Items table in between is answered 404.
C5_DeleteThen404 ==
    /\ [][DeleteEffect]_vars
    /\ [](\A id \in gone_seed : get_or_404(Items, id) = "404")

\* an item was deleted and a later GET /item/<id> was answered 404
C5_Witness ==
    /\ gone_seed # {}
    /\ Items # {}
    /\ resp.handler = "item_detail"
    /\ resp.result = "404"

\* the effect of POST /buy/<id> on the Order table when the three fields count
BuyEffect(item_id) ==
    \E o \in Orders' : /\ o \notin Orders
                       /\ Orders' = Orders \cup {o}
                       /\ o.item_id = item_id

\* what /orders lists: the orders whose item_id is the id of a current Item,
\* each with that Item
ListedOrders ==
    (resp.handler = "orders" /\ resp.result = "page") =>
        /\ \A o \in Orders :
              (\E it \in Items : it.id = o.item_id)
                  <=> (\E d \in resp.data : d.order = o)
        /\ \A d \in resp.data :
              d.order \in Orders /\ d.item \in Items /\ d.item.id = d.order.item_id

\* C6 as stated: POST /buy/<id> with non-empty location, phone and email
\* creates exactly one Order with item_id = id whether or not such an Item
\* exists, and /orders lists exactly the orders whose item_id resolves to an
\* existing Item, each paired with it.
C6_Original ==
    /\ [][resp'.handler = "buy_item" =>
          \A id \in OrderItemIdInputs, l \in LocationInputs, p \in PhoneInputs,
             e \in BuyerEmailInputs :
             (buy_item(id, l, p, e) /\ l # <<>> /\ p # <<>> /\ e # <<>>)
                 => BuyEffect(id)]_vars
    /\ []ListedOrders

\* C6 amended: ... with location, phone and email non-empty once stripped of
\* surrounding whitespace ...
C6_DanglingOrders ==
    /\ [][resp'.handler = "buy_item" =>
          \A id \in OrderItemIdInputs, l \in LocationInputs, p \in PhoneInputs,
             e \in BuyerEmailInputs :
             (buy_item(id, l, p, e)
              /\ strip(l) # <<>> /\ strip(p) # <<>> /\ strip(e) # <<>>)
                 => BuyEffect(id)]_vars
    /\ []ListedOrders

\* an order for an id with no Item exists and /orders left it out
C6_Witness ==
    /\ resp.handler = "orders"
    /\ resp.result = "page"
    /\ \E o \in Orders : query_get(Items, o.item_id) = {}
    /\ resp.data = {}

\* C7: running init_db again right after init_db leaves the User and Item
\* tables as they were; at most one User is named admin and at most one has a
\* true is_admin flag; the demo catalog is inserted only into an empty Item
\* table, so no demo item is ever present twice.
C7_BootstrapIdempotent ==
    /\ [][(resp.handler = "init_db" /\ resp'.handler = "init_db")
              => (Users' = Users /\ Items' = Items)]_vars
    /\ [][(resp'.handler = "init_db" /\ Items' # Items) => Items = {}]_vars
    /\ [](/\ Cardinality(by_username(Users, ADMIN_USERNAME)) <= 1
          /\ Cardinality({u \in Users : u.is_admin}) <= 1
          /\ \A image \in DemoImages :
                Cardinality({it \in Items : it.image = image}) <= 1)

\* the process was restarted with a second account registered and the emptied
\* catalog seeded again
C7_Witness ==
    /\ resp.handler = "init_db"
    /\ Cardinality(Users) > 1
    /\ gone_add # {}
    /\ Cardinality(Items) = DemoCount

\* a file name made by add_item
IsUpload(name) == Len(name) > 2 /\ name[1] \in Tokens /\ name[2] = "_"

\* C8 as stated: two items made by add_item, also from files of the same
\* original name, are stored under distinct file names, and both files are in
\* the upload directory.
C8_Original ==
    \A a \in Items, b \in Items :
        (a.id # b.id /\ IsUpload(a.image) /\ IsUpload(b.image)) =>
            /\ a.image # b.image
            /\ {a.image, b.image} \subseteq files

UniqueUsers ==
    \A a \in Users, b \in Users :
        a.id # b.id => (a.username # b.username /\ a.email # b.email)

\* C9: no two User rows share a username or an email; when two /register
\* requests interleave so that both pass the checks before either commits,
\* the commit of a row whose username or email is taken by then adds nothing
\* and ends in the server error, rolled back.
C9_UniqueUsers ==
    /\ []UniqueUsers
    /\ [][resp'.handler = "register" =>
          \A w \in Workers :
             (/\ register_commit(w)
              /\ \E u \in Users : \/ u.username = reqs[w].username
                                  \/ u.email = reqs[w].email)
             => (Users' = Users /\ resp'.result = "500")]_vars

\* a request that had passed the checks lost the race and got the server error
C9_Witness ==
    /\ resp.handler = "register"
    /\ resp.result = "500"
    /\ Cardinality(Users) = 2

\* C10 as stated: when an Item row with a non-empty image is created, by
\* add_item or by the seeding of the demo catalog, a file of that name is in
\* the upload directory.
C10_Original ==
    [][\A it \in Items' \ Items : it.image # <<>> => it.image \in files']_vars

====
